---------------------------- MODULE Spec2Model ----------------------------
(***************************************************************************)
(* Inventory application (src/app.py): product catalog, the per-session    *)
(* line-item buffers of consumption bills and reception sheets, the draft  *)
(* tables and the finalize transactions.                                   *)
(*                                                                         *)
(* One action is one HTTP request handled by one view function.  A         *)
(* redirect answered by a handler is a second request: it is recorded in   *)
(* last.redirect and served by the action of the target view.  Where       *)
(* requests of several browsers are served at the same time                *)
(* (SpecInterleaved), a view that queries the database twice is one action *)
(* for each query, and request holds what it has read in between.          *)
(*                                                                         *)
(* Quantities are floats in the program (float(request.form[...])); the    *)
(* model uses integers, which floats represent exactly at these sizes.     *)
(* Texts typed into forms are sequences of characters so that strip() is   *)
(* computed.  Timestamps (bill_date, updated_at, last_updated) are left    *)
(* out: with at most one draft row per type in every state the model       *)
(* reaches, order_by(last_updated.desc()).first() is that row.             *)
(***************************************************************************)
EXTENDS Integers, Sequences, FiniteSets, TLC

VARIABLES
    Product,            \* table Product: id -> row
    ConsumptionBill,    \* table ConsumptionBill: set of rows
    BillItem,           \* table BillItem: set of rows
    ReceptionSheet,     \* table ReceptionSheet: set of rows
    ReceptionItem,      \* table ReceptionItem: set of rows
    DraftBill,          \* table DraftBill: set of rows
    DraftBillItem,      \* table DraftBillItem: set of rows
    DraftReception,     \* table DraftReception: set of rows
    DraftReceptionItem, \* table DraftReceptionItem: set of rows
    session,            \* flask session of each browser: key -> list of items
    request,            \* the request each browser has in progress: what a view
                        \* that queries the database twice has read so far
    last                \* the request handled last and its response

db == <<Product, ConsumptionBill, BillItem, ReceptionSheet, ReceptionItem,
        DraftBill, DraftBillItem, DraftReception, DraftReceptionItem>>
bill_db == <<ConsumptionBill, BillItem, DraftBill, DraftBillItem>>
reception_db == <<ReceptionSheet, ReceptionItem, DraftReception, DraftReceptionItem>>
vars == <<Product, ConsumptionBill, BillItem, ReceptionSheet, ReceptionItem,
          DraftBill, DraftBillItem, DraftReception, DraftReceptionItem,
          session, request, last>>

---------------------------------------------------------------------------
(* Bounds and input domains *)

\* longest buffer a session builds
MaxItems == 2
\* most finalized documents (bills plus reception sheets) in the tables
MaxDocs == 2

\* most rows of the Product table
MaxProducts == 3

\* Where the database raises during a transaction: <<>> nowhere, <<k>> at
\* position k of the try block
NoFault == <<>>
Faults(n) == {NoFault} \cup {<<k>> : k \in 0 .. n}

\* Characters that str.strip() removes
Whitespace == {" "}

\* Product codes of the stocked catalog
A1 == <<"A", "1">>
B2 == <<"B", "2">>

---------------------------------------------------------------------------
(* Helpers *)

\* strip() left out: the field is used as typed
strip_nothing(s) == s

RECURSIVE lstrip(_)
lstrip(s) == IF s # <<>> /\ Head(s) \in Whitespace THEN lstrip(Tail(s)) ELSE s

RECURSIVE rstrip(_)
rstrip(s) ==
    IF s # <<>> /\ s[Len(s)] \in Whitespace
    THEN rstrip(SubSeq(s, 1, Len(s) - 1))
    ELSE s

\* str.strip()
strip(s) == rstrip(lstrip(s))

\* list.pop(i) with a 0-based index i: the list without that entry
pop(l, i) == [j \in 1 .. (Len(l) - 1) |-> IF j <= i THEN l[j] ELSE l[j + 1]]

\* the renumbering loop left out
renumber_nothing(l) == l

\* for i, item in enumerate(l): item['item_number'] = i + 1
renumber(l) == [j \in 1 .. Len(l) |-> [l[j] EXCEPT !.item_number = j]]

\* session[key] = value
session_set(sess, key, value) ==
    [k \in DOMAIN sess \cup {key} |-> IF k = key THEN value ELSE sess[k]]

\* the whole session emptied
session_clear(sess, key) == <<>>

\* session.pop(key, None)
session_pop(sess, key) == [k \in DOMAIN sess \ {key} |-> sess[k]]

\* Product.query.filter_by(code=code).first(): the ids of the rows found
\* (at most one: code is unique in the table)
product_by_code(products, code) ==
    {id \in DOMAIN products : products[id].code = code}

\* query.all() with no order_by: the rows in any order the database returns
all_rows(rows) ==
    {l \in [1 .. Cardinality(rows) -> rows] :
        \A i, j \in 1 .. Cardinality(rows) : i # j => l[i] # l[j]}

\* the dict an add-item view appends to the buffer
new_item(n, product, quantity) ==
    [item_number |-> n,
     code |-> product.code,
     name |-> product.name,
     unit |-> product.unit,
     quantity |-> quantity,
     location |-> product.location]

\* the dict load_draft_* appends to the buffer for a draft item row
item_of_row(row) ==
    [item_number |-> row.item_number,
     code |-> row.product_code,
     name |-> row.product_name,
     unit |-> row.unit,
     quantity |-> row.quantity,
     location |-> row.location]

\* a request and the response of its view: the view, the session, the
\* outcome, the view a redirect names, the form fields, the value returned
NoArg == [code |-> <<>>, quantity |-> 0, index |-> 0, meta |-> <<>>, fault |-> NoFault]
response(op, sid, result, redirect, arg) ==
    [op |-> op, sid |-> sid, result |-> result, redirect |-> redirect, arg |-> arg]

---------------------------------------------------------------------------
(* Initial state: the tables after init_db(), then a stocked catalog *)

InitialProducts ==
    (1 :> [code |-> A1, name |-> <<"b">>, unit |-> <<"u">>, quantity |-> 2,
           location |-> <<"r">>, min_stock |-> 1]) @@
    (2 :> [code |-> B2, name |-> <<"n">>, unit |-> <<"k">>, quantity |-> 1,
           location |-> <<>>, min_stock |-> 1])

InitWith(products, sessions) ==
    /\ Product = products
    /\ ConsumptionBill = {}
    /\ BillItem = {}
    /\ ReceptionSheet = {}
    /\ ReceptionItem = {}
    /\ DraftBill = {}
    /\ DraftBillItem = {}
    /\ DraftReception = {}
    /\ DraftReceptionItem = {}
    /\ session = [s \in sessions |-> <<>>]
    /\ request = [s \in sessions |-> <<>>]
    /\ last = response("init", "-", "ok", "none", NoArg)

---------------------------------------------------------------------------
(* Consumption bills *)

\* the buffer of a session ([] when the key is absent)
bill_items(s) ==
    IF "bill_items" \in DOMAIN session[s] THEN session[s]["bill_items"] ELSE <<>>

\* the draft items put after the items the buffer holds
load_draft_bill_appending(sess, items) ==
    IF DraftBill = {}
    THEN [session |-> sess, found |-> FALSE, data |-> <<>>]
    ELSE LET draft == CHOOSE d \in DraftBill : TRUE
             held == IF "bill_items" \in DOMAIN sess THEN sess["bill_items"] ELSE <<>>
         IN
         [session |-> session_set(sess, "bill_items",
                                  held \o [i \in 1 .. Len(items) |-> item_of_row(items[i])]),
          found |-> TRUE,
          data |-> <<draft.employee_name, draft.employee_signature>>]

\* load_draft_bill() with the draft item rows as the database returned them:
\* the session afterwards and the value returned
load_draft_bill(sess, items) ==
    IF DraftBill = {}
    THEN [session |-> sess, found |-> FALSE, data |-> <<>>]
    ELSE LET draft == CHOOSE d \in DraftBill : TRUE IN
         [session |-> session_set(sess, "bill_items",
                                  [i \in 1 .. Len(items) |-> item_of_row(items[i])]),
          found |-> TRUE,
          data |-> <<draft.employee_name, draft.employee_signature>>]

\* the rows load_draft_bill() reads: DraftBillItem.query.filter_by(draft_id=draft.id)
draft_bill_rows ==
    {r \in DraftBillItem : \E d \in DraftBill : r.draft_id = d.id}

\* the buffer kept in one place for all browsers: the draft loaded into
\* every session
create_consumption_bill_shared(s) ==
    \E items \in all_rows(draft_bill_rows) :
        LET r == load_draft_bill(session[s], items) IN
        /\ session' = [t \in DOMAIN session |->
                          load_draft_bill(session[t], items).session]
        /\ last' = response("create_consumption_bill", s,
                            IF r.found THEN "draft" ELSE "no_draft", "none",
                            [NoArg EXCEPT !.meta = r.data])
        /\ UNCHANGED <<db, request>>

\* GET /consumption_bills/create
create_consumption_bill(s) ==
    \E items \in all_rows(draft_bill_rows) :
        LET r == load_draft_bill(session[s], items) IN
        /\ session' = [session EXCEPT ![s] = r.session]
        /\ last' = response("create_consumption_bill", s,
                            IF r.found THEN "draft" ELSE "no_draft", "none",
                            [NoArg EXCEPT !.meta = r.data])
        /\ UNCHANGED <<db, request>>

\* GET /consumption_bills/create while other requests are served: the first
\* query of load_draft_bill(), DraftBill...first().  With no draft the view
\* is done; with one, the view holds the row (and the item rows of the
\* snapshot it read from) and has its second query still to make.
create_consumption_bill_draft_query(s) ==
    /\ request[s] = <<>>
    /\ IF DraftBill = {}
       THEN /\ request' = request
            /\ last' = response("create_consumption_bill", s, "no_draft", "none",
                                [NoArg EXCEPT !.meta = <<>>])
       ELSE LET draft == CHOOSE d \in DraftBill : TRUE IN
            /\ request' = [request EXCEPT ![s] =
                               <<[draft |-> draft,
                                  snapshot |-> {r \in DraftBillItem :
                                                   r.draft_id = draft.id}]>>]
            /\ last' = last
    /\ UNCHANGED <<db, session>>

\* the second query, DraftBillItem...filter_by(draft_id=draft.id).all(), and
\* the rest of the view.  The query reads what is committed when it runs
\* (a transaction that reads committed data statement by statement) or what
\* was committed at the first query (a transaction that reads one snapshot):
\* the database and its isolation level come with DATABASE_URL.
create_consumption_bill_items_query(s) ==
    /\ request[s] # <<>>
    /\ LET draft == request[s][1].draft IN
       \E rows \in {request[s][1].snapshot,
                    {r \in DraftBillItem : r.draft_id = draft.id}} :
       \E items \in all_rows(rows) :
          /\ session' = [session EXCEPT ![s] =
                session_set(session[s], "bill_items",
                            [i \in 1 .. Len(items) |-> item_of_row(items[i])])]
          /\ last' = response("create_consumption_bill", s, "draft", "none",
                [NoArg EXCEPT !.meta = <<draft.employee_name,
                                         draft.employee_signature>>])
    /\ request' = [request EXCEPT ![s] = <<>>]
    /\ UNCHANGED db

\* the comparison with >= : a request for the whole stock is refused
insufficient_stock_ge(quantity, product) == quantity >= product.quantity

\* the comparison turned round
insufficient_stock_reversed(quantity, product) == product.quantity > quantity

\* if quantity > product.quantity: the request is refused
insufficient_stock(quantity, product) == quantity > product.quantity

\* a second request for a code in the buffer added to the item that is there
add_bill_item_merging(s, product_code, quantity) ==
    LET found == product_by_code(Product, product_code)
        arg == [NoArg EXCEPT !.code = product_code, !.quantity = quantity]
        held == bill_items(s)
    IN
    /\ UNCHANGED <<db, request>>
    /\ IF found = {}
       THEN /\ session' = session
            /\ last' = response("add_bill_item", s, "not_found", "none", arg)
       ELSE LET product == Product[CHOOSE id \in found : TRUE] IN
            IF insufficient_stock(quantity, product)
            THEN /\ session' = session
                 /\ last' = response("add_bill_item", s, "insufficient_stock", "none", arg)
            ELSE /\ Len(held) < MaxItems
                 /\ session' = [session EXCEPT ![s] =
                       session_set(session[s], "bill_items",
                          IF \E k \in 1 .. Len(held) : held[k].code = product.code
                          THEN [k \in 1 .. Len(held) |->
                                  IF held[k].code = product.code
                                  THEN [held[k] EXCEPT !.quantity = @ + quantity]
                                  ELSE held[k]]
                          ELSE Append(held, new_item(Len(held) + 1, product, quantity)))]
                 /\ last' = response("add_bill_item", s, "ok", "none", arg)

\* POST /consumption_bills/add_item
add_bill_item(s, product_code, quantity) ==
    LET found == product_by_code(Product, product_code)
        arg == [NoArg EXCEPT !.code = product_code, !.quantity = quantity]
    IN
    /\ UNCHANGED <<db, request>>
    /\ IF found = {}
       THEN /\ session' = session
            /\ last' = response("add_bill_item", s, "not_found", "none", arg)
       ELSE LET product == Product[CHOOSE id \in found : TRUE] IN
            IF insufficient_stock(quantity, product)
            THEN /\ session' = session
                 /\ last' = response("add_bill_item", s, "insufficient_stock", "none", arg)
            ELSE LET sess == IF "bill_items" \in DOMAIN session[s]
                             THEN session[s]
                             ELSE session_set(session[s], "bill_items", <<>>)
                     item == new_item(Len(sess["bill_items"]) + 1, product, quantity)
                 IN /\ Len(sess["bill_items"]) < MaxItems
                    /\ session' = [session EXCEPT ![s] =
                          session_set(sess, "bill_items", Append(sess["bill_items"], item))]
                    /\ last' = response("add_bill_item", s, "ok", "none", arg)

\* GET /consumption_bills/remove_item/<int:item_index>
remove_bill_item(s, item_index) ==
    /\ UNCHANGED <<db, request>>
    /\ IF "bill_items" \in DOMAIN session[s]
          /\ 0 <= item_index /\ item_index < Len(session[s]["bill_items"])
       THEN /\ session' = [session EXCEPT ![s] =
                  session_set(session[s], "bill_items",
                              renumber(pop(session[s]["bill_items"], item_index)))]
            /\ last' = response("remove_bill_item", s, "removed",
                                "create_consumption_bill", [NoArg EXCEPT !.index = item_index])
       ELSE /\ session' = session
            /\ last' = response("remove_bill_item", s, "ignored",
                                "create_consumption_bill", [NoArg EXCEPT !.index = item_index])

\* the DraftBillItem row save_bill_draft() adds for a buffer item
draft_bill_item(id, draft_id, item) ==
    [id |-> id,
     draft_id |-> draft_id,
     item_number |-> item.item_number,
     product_code |-> item.code,
     product_name |-> item.name,
     unit |-> item.unit,
     quantity |-> item.quantity,
     location |-> item.location]

\* the old draft not cleared: the new draft added beside it
save_bill_draft_keeps_old(s, employee_name, employee_signature) ==
    LET items == bill_items(s)
        draft == [id |-> Cardinality(DraftBill) + 1,
                  employee_name |-> employee_name,
                  employee_signature |-> employee_signature]
    IN
    /\ DraftBill' = DraftBill \cup {draft}
    /\ DraftBillItem' = DraftBillItem \cup
          {draft_bill_item(Cardinality(DraftBillItem) + i, draft.id, items[i]) :
              i \in 1 .. Len(items)}
    /\ last' = response("save_bill_draft", s, "ok", "create_consumption_bill",
                        [NoArg EXCEPT !.meta = <<employee_name, employee_signature>>])
    /\ UNCHANGED <<Product, ConsumptionBill, BillItem, reception_db,
                   session, request>>

\* POST /consumption_bills/save_draft
save_bill_draft(s, employee_name, employee_signature) ==
    LET items == bill_items(s)
        \* db.session.flush() gives the row a fresh id: with both tables
        \* emptied any id is fresh, and the model takes 1
        draft == [id |-> 1,
                  employee_name |-> employee_name,
                  employee_signature |-> employee_signature]
    IN
    /\ DraftBill' = {draft}
    /\ DraftBillItem' = {draft_bill_item(i, draft.id, items[i]) : i \in 1 .. Len(items)}
    /\ last' = response("save_bill_draft", s, "ok", "create_consumption_bill",
                        [NoArg EXCEPT !.meta = <<employee_name, employee_signature>>])
    /\ UNCHANGED <<Product, ConsumptionBill, BillItem, reception_db,
                   session, request>>

\* the tables the bill transaction writes, as the transaction sees them
bill_tx(products, bills, items, drafts, draft_items) ==
    [Product |-> products, ConsumptionBill |-> bills, BillItem |-> items,
     DraftBill |-> drafts, DraftBillItem |-> draft_items]

\* db.session.add(bill); db.session.flush()
tx_add_bill(tx, employee_name, employee_signature) ==
    [tx EXCEPT !.ConsumptionBill = @ \cup
        {[id |-> Cardinality(@) + 1,
          employee_name |-> employee_name,
          employee_signature |-> employee_signature,
          is_finished |-> TRUE]}]

\* the stock adjusted with the sign of a reception
tx_add_bill_item_plus(tx, bill_id, item) ==
    LET row == [id |-> Cardinality(tx.BillItem) + 1,
                bill_id |-> bill_id,
                item_number |-> item.item_number,
                product_code |-> item.code,
                product_name |-> item.name,
                unit |-> item.unit,
                quantity |-> item.quantity,
                location |-> item.location]
        found == product_by_code(tx.Product, item.code)
    IN
    IF found = {}
    THEN [tx EXCEPT !.BillItem = @ \cup {row}]
    ELSE LET id == CHOOSE p \in found : TRUE IN
         [tx EXCEPT !.BillItem = @ \cup {row},
                    !.Product[id].quantity = @ + item.quantity]

\* an item whose product is gone skipped altogether
tx_add_bill_item_skip_missing(tx, bill_id, item) ==
    LET found == product_by_code(tx.Product, item.code) IN
    IF found = {}
    THEN tx
    ELSE LET id == CHOOSE p \in found : TRUE IN
         [tx EXCEPT !.BillItem = @ \cup
                       {[id |-> Cardinality(tx.BillItem) + 1,
                         bill_id |-> bill_id,
                         item_number |-> item.item_number,
                         product_code |-> item.code,
                         product_name |-> item.name,
                         unit |-> item.unit,
                         quantity |-> item.quantity,
                         location |-> item.location]},
                    !.Product[id].quantity = @ - item.quantity]

\* one round of the loop: the BillItem row, then the stock of the product
tx_add_bill_item(tx, bill_id, item) ==
    LET row == [id |-> Cardinality(tx.BillItem) + 1,
                bill_id |-> bill_id,
                item_number |-> item.item_number,
                product_code |-> item.code,
                product_name |-> item.name,
                unit |-> item.unit,
                quantity |-> item.quantity,
                location |-> item.location]
        found == product_by_code(tx.Product, item.code)
    IN
    IF found = {}
    THEN [tx EXCEPT !.BillItem = @ \cup {row}]
    ELSE LET id == CHOOSE p \in found : TRUE IN
         [tx EXCEPT !.BillItem = @ \cup {row},
                    !.Product[id].quantity = @ - item.quantity]

\* for item in session['bill_items']: the first n rounds
RECURSIVE tx_bill_items(_, _, _, _)
tx_bill_items(tx, bill_id, items, n) ==
    IF n = 0
    THEN tx
    ELSE tx_add_bill_item(tx_bill_items(tx, bill_id, items, n - 1), bill_id, items[n])

\* only the DraftBill rows deleted
tx_clear_bill_draft_rows_only(tx) == [tx EXCEPT !.DraftBill = {}]

\* DraftBill.query.delete(); DraftBillItem.query.delete()
tx_clear_bill_draft(tx) == [tx EXCEPT !.DraftBill = {}, !.DraftBillItem = {}]

\* The try block up to the point where the database raises: fault 0 at the
\* flush of the bill, fault k in 1..n in round k of the loop, n + 1 at the
\* deletion of the draft, n + 2 at the commit; NoFault runs it to the end.
finalize_bill_tx(tx, employee_name, employee_signature, items, fault) ==
    LET n == Len(items)
        bill_id == Cardinality(tx.ConsumptionBill) + 1
        rounds == IF fault = NoFault \/ fault[1] > n THEN n ELSE fault[1] - 1
    IN
    IF fault = <<0>>
    THEN tx
    ELSE LET looped == tx_bill_items(tx_add_bill(tx, employee_name, employee_signature),
                                     bill_id, items, rounds)
         IN IF fault = NoFault \/ fault = <<n + 2>>
            THEN tx_clear_bill_draft(looped)
            ELSE looped

\* no rollback: what the transaction wrote so far stays
rollback_keeps_work(before, work) == work

\* db.session.rollback(): the tables as they were before the transaction
rollback(before, work) == before

\* only the missing key tested, not the empty list
no_bill_items_key_only(sess) == "bill_items" \notin DOMAIN sess

\* if 'bill_items' not in session or not session['bill_items']
no_bill_items(sess) ==
    "bill_items" \notin DOMAIN sess \/ sess["bill_items"] = <<>>

\* POST /consumption_bills/finalize
finalize_consumption_bill(s, name_field, signature_field, fault) ==
    LET employee_name == strip(name_field)
        employee_signature == strip(signature_field)
        arg == [NoArg EXCEPT !.meta = <<name_field, signature_field>>, !.fault = fault]
    IN
    IF employee_name = <<>>
    THEN /\ last' = response("finalize_consumption_bill", s, "validation_error",
                             "create_consumption_bill", [arg EXCEPT !.fault = NoFault])
         /\ fault = NoFault
         /\ UNCHANGED <<db, session, request>>
    ELSE IF no_bill_items(session[s])
    THEN /\ last' = response("finalize_consumption_bill", s, "empty_document",
                             "create_consumption_bill", [arg EXCEPT !.fault = NoFault])
         /\ fault = NoFault
         /\ UNCHANGED <<db, session, request>>
    ELSE LET before == bill_tx(Product, ConsumptionBill, BillItem, DraftBill, DraftBillItem)
             work == finalize_bill_tx(before, employee_name, employee_signature,
                                      session[s]["bill_items"], fault)
             after == IF fault = NoFault THEN work ELSE rollback(before, work)
         IN
         /\ fault \in Faults(Len(session[s]["bill_items"]) + 2)
         /\ Cardinality(ConsumptionBill) + Cardinality(ReceptionSheet) < MaxDocs
         /\ Product' = after.Product
         /\ ConsumptionBill' = after.ConsumptionBill
         /\ BillItem' = after.BillItem
         /\ DraftBill' = after.DraftBill
         /\ DraftBillItem' = after.DraftBillItem
         /\ session' = IF fault = NoFault
                       THEN [session EXCEPT ![s] = session_pop(session[s], "bill_items")]
                       ELSE session
         /\ last' = IF fault = NoFault
                    THEN response("finalize_consumption_bill", s, "ok",
                                  "consumption_bills", arg)
                    ELSE response("finalize_consumption_bill", s, "error",
                                  "create_consumption_bill", arg)
         /\ UNCHANGED <<reception_db, request>>

---------------------------------------------------------------------------
(* Reception sheets *)

\* the buffer of a session ([] when the key is absent)
reception_items(s) ==
    IF "reception_items" \in DOMAIN session[s]
    THEN session[s]["reception_items"]
    ELSE <<>>

\* load_draft_reception() with the draft item rows as the database returned
\* them: the session afterwards and the value returned
load_draft_reception(sess, items) ==
    IF DraftReception = {}
    THEN [session |-> sess, found |-> FALSE, data |-> <<>>]
    ELSE LET draft == CHOOSE d \in DraftReception : TRUE IN
         [session |-> session_set(sess, "reception_items",
                                  [i \in 1 .. Len(items) |-> item_of_row(items[i])]),
          found |-> TRUE,
          data |-> <<draft.supplier, draft.document_number, draft.notes>>]

\* the rows load_draft_reception() reads:
\* DraftReceptionItem.query.filter_by(draft_id=draft.id)
draft_reception_rows ==
    {r \in DraftReceptionItem : \E d \in DraftReception : r.draft_id = d.id}

\* GET /reception/create
create_reception(s) ==
    \E items \in all_rows(draft_reception_rows) :
        LET r == load_draft_reception(session[s], items) IN
        /\ session' = [session EXCEPT ![s] = r.session]
        /\ last' = response("create_reception", s,
                            IF r.found THEN "draft" ELSE "no_draft", "none",
                            [NoArg EXCEPT !.meta = r.data])
        /\ UNCHANGED <<db, request>>

\* POST /reception/add_item
add_reception_item(s, product_code, quantity) ==
    LET found == product_by_code(Product, product_code)
        arg == [NoArg EXCEPT !.code = product_code, !.quantity = quantity]
    IN
    /\ UNCHANGED <<db, request>>
    /\ IF found = {}
       THEN /\ session' = session
            /\ last' = response("add_reception_item", s, "not_found", "none", arg)
       ELSE LET product == Product[CHOOSE id \in found : TRUE]
                sess == IF "reception_items" \in DOMAIN session[s]
                        THEN session[s]
                        ELSE session_set(session[s], "reception_items", <<>>)
                item == new_item(Len(sess["reception_items"]) + 1, product, quantity)
            IN /\ Len(sess["reception_items"]) < MaxItems
               /\ session' = [session EXCEPT ![s] =
                     session_set(sess, "reception_items",
                                 Append(sess["reception_items"], item))]
               /\ last' = response("add_reception_item", s, "ok", "none", arg)

\* GET /reception/remove_item/<int:item_index>
remove_reception_item(s, item_index) ==
    /\ UNCHANGED <<db, request>>
    /\ IF "reception_items" \in DOMAIN session[s]
          /\ 0 <= item_index /\ item_index < Len(session[s]["reception_items"])
       THEN /\ session' = [session EXCEPT ![s] =
                  session_set(session[s], "reception_items",
                              renumber(pop(session[s]["reception_items"], item_index)))]
            /\ last' = response("remove_reception_item", s, "removed",
                                "create_reception", [NoArg EXCEPT !.index = item_index])
       ELSE /\ session' = session
            /\ last' = response("remove_reception_item", s, "ignored",
                                "create_reception", [NoArg EXCEPT !.index = item_index])

\* the DraftReceptionItem row save_reception_draft() adds for a buffer item
draft_reception_item(id, draft_id, item) ==
    [id |-> id,
     draft_id |-> draft_id,
     item_number |-> item.item_number,
     product_code |-> item.code,
     product_name |-> item.name,
     unit |-> item.unit,
     quantity |-> item.quantity,
     location |-> item.location]

\* POST /reception/save_draft
save_reception_draft(s, supplier, document_number, notes) ==
    LET items == reception_items(s)
        \* db.session.flush() gives the row a fresh id: with both tables
        \* emptied any id is fresh, and the model takes 1
        draft == [id |-> 1,
                  supplier |-> supplier,
                  document_number |-> document_number,
                  notes |-> notes]
    IN
    /\ DraftReception' = {draft}
    /\ DraftReceptionItem' =
          {draft_reception_item(i, draft.id, items[i]) : i \in 1 .. Len(items)}
    /\ last' = response("save_reception_draft", s, "ok", "create_reception",
                        [NoArg EXCEPT !.meta = <<supplier, document_number, notes>>])
    /\ UNCHANGED <<Product, ReceptionSheet, ReceptionItem, bill_db,
                   session, request>>

\* the tables the reception transaction writes, as the transaction sees them
reception_tx(products, sheets, items, drafts, draft_items) ==
    [Product |-> products, ReceptionSheet |-> sheets, ReceptionItem |-> items,
     DraftReception |-> drafts, DraftReceptionItem |-> draft_items]

\* db.session.add(reception); db.session.flush()
tx_add_reception(tx, supplier, document_number, notes) ==
    [tx EXCEPT !.ReceptionSheet = @ \cup
        {[id |-> Cardinality(@) + 1,
          supplier |-> supplier,
          document_number |-> document_number,
          notes |-> notes,
          is_finished |-> TRUE]}]

\* the row recorded and the stock left as it was
tx_add_reception_item_no_stock(tx, reception_id, item) ==
    [tx EXCEPT !.ReceptionItem = @ \cup
        {[id |-> Cardinality(tx.ReceptionItem) + 1,
          reception_id |-> reception_id,
          item_number |-> item.item_number,
          product_code |-> item.code,
          product_name |-> item.name,
          unit |-> item.unit,
          quantity |-> item.quantity,
          location |-> item.location]}]

\* one round of the loop: the ReceptionItem row, then the stock of the product
tx_add_reception_item(tx, reception_id, item) ==
    LET row == [id |-> Cardinality(tx.ReceptionItem) + 1,
                reception_id |-> reception_id,
                item_number |-> item.item_number,
                product_code |-> item.code,
                product_name |-> item.name,
                unit |-> item.unit,
                quantity |-> item.quantity,
                location |-> item.location]
        found == product_by_code(tx.Product, item.code)
    IN
    IF found = {}
    THEN [tx EXCEPT !.ReceptionItem = @ \cup {row}]
    ELSE LET id == CHOOSE p \in found : TRUE IN
         [tx EXCEPT !.ReceptionItem = @ \cup {row},
                    !.Product[id].quantity = @ + item.quantity]

\* for item in session['reception_items']: the first n rounds
RECURSIVE tx_reception_items(_, _, _, _)
tx_reception_items(tx, reception_id, items, n) ==
    IF n = 0
    THEN tx
    ELSE tx_add_reception_item(tx_reception_items(tx, reception_id, items, n - 1),
                               reception_id, items[n])

\* DraftReception.query.delete(); DraftReceptionItem.query.delete()
tx_clear_reception_draft(tx) ==
    [tx EXCEPT !.DraftReception = {}, !.DraftReceptionItem = {}]

\* The try block up to the point where the database raises: fault 0 at the
\* flush of the sheet, fault k in 1..n in round k of the loop, n + 1 at the
\* deletion of the draft, n + 2 at the commit; NoFault runs it to the end.
finalize_reception_tx(tx, supplier, document_number, notes, items, fault) ==
    LET n == Len(items)
        reception_id == Cardinality(tx.ReceptionSheet) + 1
        rounds == IF fault = NoFault \/ fault[1] > n THEN n ELSE fault[1] - 1
    IN
    IF fault = <<0>>
    THEN tx
    ELSE LET looped == tx_reception_items(
                          tx_add_reception(tx, supplier, document_number, notes),
                          reception_id, items, rounds)
         IN IF fault = NoFault \/ fault = <<n + 2>>
            THEN tx_clear_reception_draft(looped)
            ELSE looped

\* if 'reception_items' not in session or not session['reception_items']
no_reception_items(sess) ==
    "reception_items" \notin DOMAIN sess \/ sess["reception_items"] = <<>>

\* POST /reception/finalize
finalize_reception(s, supplier_field, document_number_field, notes_field, fault) ==
    LET supplier == strip(supplier_field)
        document_number == strip(document_number_field)
        notes == strip(notes_field)
        arg == [NoArg EXCEPT
                  !.meta = <<supplier_field, document_number_field, notes_field>>,
                  !.fault = fault]
    IN
    IF supplier = <<>>
    THEN /\ last' = response("finalize_reception", s, "validation_error",
                             "create_reception", [arg EXCEPT !.fault = NoFault])
         /\ fault = NoFault
         /\ UNCHANGED <<db, session, request>>
    ELSE IF no_reception_items(session[s])
    THEN /\ last' = response("finalize_reception", s, "empty_document",
                             "create_reception", [arg EXCEPT !.fault = NoFault])
         /\ fault = NoFault
         /\ UNCHANGED <<db, session, request>>
    ELSE LET before == reception_tx(Product, ReceptionSheet, ReceptionItem,
                                    DraftReception, DraftReceptionItem)
             work == finalize_reception_tx(before, supplier, document_number, notes,
                                           session[s]["reception_items"], fault)
             after == IF fault = NoFault THEN work ELSE rollback(before, work)
         IN
         /\ fault \in Faults(Len(session[s]["reception_items"]) + 2)
         /\ Cardinality(ConsumptionBill) + Cardinality(ReceptionSheet) < MaxDocs
         /\ Product' = after.Product
         /\ ReceptionSheet' = after.ReceptionSheet
         /\ ReceptionItem' = after.ReceptionItem
         /\ DraftReception' = after.DraftReception
         /\ DraftReceptionItem' = after.DraftReceptionItem
         /\ session' = IF fault = NoFault
                       THEN [session EXCEPT ![s] =
                               session_pop(session[s], "reception_items")]
                       ELSE session
         /\ last' = IF fault = NoFault
                    THEN response("finalize_reception", s, "ok", "reception", arg)
                    ELSE response("finalize_reception", s, "error",
                                  "create_reception", arg)
         /\ UNCHANGED <<bill_db, request>>

---------------------------------------------------------------------------
(* Product catalog *)

\* no unique constraint: the commit never raises
code_never_taken(products, code, except) == FALSE

\* the unique constraint on Product.code (models.py): a row with this code,
\* other than the rows in `except`, is already in the table, and the commit
\* raises IntegrityError
code_taken(products, code, except) ==
    \E id \in DOMAIN products \ except : products[id].code = code

\* the id the database gives a new Product row: one that no row has
fresh_id(products) ==
    CHOOSE id \in 1 .. (Cardinality(DOMAIN products) + 1) : id \notin DOMAIN products

\* the form fields of add_product and edit_product, as the view reads them
product_of_form(form) ==
    [code |-> strip(form.code),
     name |-> strip(form.name),
     unit |-> strip(form.unit),
     quantity |-> form.quantity,
     location |-> strip(form.location),
     min_stock |-> form.min_stock]

\* POST /products/add
add_product(form) ==
    LET product == product_of_form(form) IN
    /\ Cardinality(DOMAIN Product) < MaxProducts
    /\ IF code_taken(Product, product.code, {})
       THEN /\ Product' = Product           \* IntegrityError: rollback
            /\ last' = response("add_product", "-", "duplicate_code", "none",
                                [NoArg EXCEPT !.code = form.code])
       ELSE /\ Product' = (fresh_id(Product) :> product) @@ Product
            /\ last' = response("add_product", "-", "ok", "products",
                                [NoArg EXCEPT !.code = form.code])
    /\ UNCHANGED <<bill_db, reception_db, session, request>>

\* POST /products/edit/<int:product_id>
edit_product(product_id, form) ==
    LET product == product_of_form(form)
        arg == [NoArg EXCEPT !.code = form.code, !.index = product_id]
    IN
    /\ IF product_id \notin DOMAIN Product
       THEN /\ Product' = Product           \* get_or_404
            /\ last' = response("edit_product", "-", "not_found", "none", arg)
       ELSE IF code_taken(Product, product.code, {product_id})
       THEN /\ Product' = Product           \* IntegrityError: rollback
            /\ last' = response("edit_product", "-", "duplicate_code", "none", arg)
       ELSE /\ Product' = [Product EXCEPT ![product_id] = product]
            /\ last' = response("edit_product", "-", "ok", "products", arg)
    /\ UNCHANGED <<bill_db, reception_db, session, request>>

\* the line items deleted with the product they name
delete_product_cascade(product_id) ==
    /\ product_id \in DOMAIN Product
    /\ Product' = [id \in DOMAIN Product \ {product_id} |-> Product[id]]
    /\ BillItem' = {r \in BillItem : r.product_code # Product[product_id].code}
    /\ ReceptionItem' =
          {r \in ReceptionItem : r.product_code # Product[product_id].code}
    /\ last' = response("delete_product", "-", "ok", "products", NoArg)
    /\ UNCHANGED <<ConsumptionBill, DraftBill, DraftBillItem, ReceptionSheet,
                   DraftReception, DraftReceptionItem, session, request>>

\* GET /consumption_bills/export/<int:bill_id> (and view/<int:bill_id>): the
\* bill and its items are read, nothing is written
export_consumption_bill(bill_id) ==
    /\ last' = response("export_consumption_bill", "-",
                        IF \E b \in ConsumptionBill : b.id = bill_id
                        THEN "ok" ELSE "not_found",
                        "none", [NoArg EXCEPT !.index = bill_id])
    /\ UNCHANGED <<db, session, request>>

\* GET /reception/export/<int:reception_id> (and view/<int:reception_id>)
export_reception(reception_id) ==
    /\ last' = response("export_reception", "-",
                        IF \E r \in ReceptionSheet : r.id = reception_id
                        THEN "ok" ELSE "not_found",
                        "none", [NoArg EXCEPT !.index = reception_id])
    /\ UNCHANGED <<db, session, request>>

\* GET /products/delete/<int:product_id>
delete_product(product_id) ==
    /\ product_id \in DOMAIN Product   \* get_or_404
    /\ Product' = [id \in DOMAIN Product \ {product_id} |-> Product[id]]
    /\ last' = response("delete_product", "-", "ok", "products", NoArg)
    /\ UNCHANGED <<bill_db, reception_db, session, request>>

---------------------------------------------------------------------------
(* Specifications *)

\* no document finalized yet
no_document == ConsumptionBill = {} /\ ReceptionSheet = {}

\* The application up to its first finalized document and the requests that
\* follow it: one browser session, both document types, the catalog
Next ==
    \/ \E c \in {A1, B2} : add_bill_item("s1", c, 1)
    \/ \E i \in {0, MaxItems} : remove_bill_item("s1", i)
    \/ save_bill_draft("s1", <<"A", " ">>, <<" ", "s">>)
    \/ create_consumption_bill("s1")
    \/ \E n \in {<<" ">>, <<"A", " ">>}, f \in {NoFault, <<2>>, <<3>>} :
          no_document /\ finalize_consumption_bill("s1", n, <<" ", "s">>, f)
    \/ add_reception_item("s1", A1, 1)
    \/ \E i \in {0, MaxItems} : remove_reception_item("s1", i)
    \/ save_reception_draft("s1", <<"F", " ">>, <<"7", " ">>, <<>>)
    \/ create_reception("s1")
    \/ \E n \in {<<" ">>, <<"F", " ">>}, f \in {NoFault, <<2>>, <<3>>} :
          no_document /\ finalize_reception("s1", n, <<"7", " ">>, <<>>, f)
    \/ delete_product(1)

Spec == InitWith(InitialProducts, {"s1"}) /\ [][Next]_vars

\* The buffers alone: two browser sessions adding and removing items
NextBuffer ==
    \/ \E s \in {"s1", "s2"}, c \in {A1, <<"Z">>}, q \in {1, 2, 3} :
          add_bill_item(s, c, q)
    \/ \E s \in {"s1", "s2"}, i \in 0 .. MaxItems : remove_bill_item(s, i)
    \/ \E s \in {"s1", "s2"} : create_consumption_bill(s)
    \/ \E s \in {"s1", "s2"}, c \in {A1, <<"Z">>} : add_reception_item(s, c, 3)
    \/ \E s \in {"s1", "s2"}, i \in 0 .. MaxItems : remove_reception_item(s, i)
    \/ \E s \in {"s1", "s2"} : create_reception(s)

SpecBuffer == InitWith(InitialProducts, {"s1", "s2"}) /\ [][NextBuffer]_vars

\* The example of the specification: product A1 at quantity 10
ExampleProducts ==
    (1 :> [code |-> A1, name |-> <<"b">>, unit |-> <<"u">>, quantity |-> 10,
           location |-> <<"r">>, min_stock |-> 1])

NextExample ==
    \/ \E q \in {4, 10, 11} : add_bill_item("s1", A1, q)
    \/ \E i \in 0 .. MaxItems : remove_bill_item("s1", i)
    \/ create_consumption_bill("s1")
    \/ \E n \in {<<>>, <<"A">>} :
          finalize_consumption_bill("s1", n, <<>>, NoFault)

SpecExample == InitWith(ExampleProducts, {"s1"}) /\ [][NextExample]_vars

\* The catalog and the documents: products added, edited and deleted while
\* one session builds and finalizes bills and reception sheets
product_form(code) ==
    [code |-> code, name |-> <<"x", " ">>, unit |-> <<"u">>, quantity |-> 1,
     location |-> <<>>, min_stock |-> 1]

NextCatalog ==
    \/ \E c \in {A1, B2} : add_bill_item("s1", c, 1)
    \/ save_bill_draft("s1", <<>>, <<>>)
    \/ finalize_consumption_bill("s1", <<"A">>, <<>>, NoFault)
    \/ add_reception_item("s1", A1, 1)
    \/ finalize_reception("s1", <<"F">>, <<>>, <<>>, NoFault)
    \/ \E id \in 1 .. MaxDocs : export_consumption_bill(id)
    \/ \E id \in 1 .. MaxDocs : export_reception(id)
    \/ edit_product(1, product_form(<<"C">>))
    \/ delete_product(1)

SpecCatalog == InitWith(InitialProducts, {"s1"}) /\ [][NextCatalog]_vars

\* The catalog alone: products added, edited and deleted
NextProducts ==
    \/ \E c \in {<<"A", "1", " ">>, <<"C">>} : add_product(product_form(c))
    \/ \E id \in 1 .. MaxProducts, c \in {A1, <<" ", "B", "2">>, <<"C">>} :
          edit_product(id, product_form(c))
    \/ \E id \in 1 .. MaxProducts : delete_product(id)

SpecProducts == InitWith(InitialProducts, {"s1"}) /\ [][NextProducts]_vars

\* Quantities as typed: negative, zero and positive, on both document types
NextQuantity ==
    \/ \E q \in {0, 1} : add_bill_item("s1", A1, q)
    \/ save_bill_draft("s1", <<>>, <<>>)
    \/ create_consumption_bill("s1")
    \/ finalize_consumption_bill("s1", <<"A">>, <<>>, NoFault)
    \/ \E q \in {0 - 1, 1} : add_reception_item("s1", A1, q)
    \/ finalize_reception("s1", <<"F">>, <<>>, <<>>, NoFault)

SpecQuantity == InitWith(InitialProducts, {"s1"}) /\ [][NextQuantity]_vars

\* Two browser sessions working on the same drafts, up to the first
\* finalized document and the requests that follow it
NextSessions ==
    \/ \E s \in {"s1", "s2"} : add_bill_item(s, A1, 1)
    \/ \E s \in {"s1", "s2"} : remove_bill_item(s, 0)
    \/ \E s \in {"s1", "s2"} : save_bill_draft(s, <<"A">>, <<>>)
    \/ \E s \in {"s1", "s2"} : create_consumption_bill(s)
    \/ \E s \in {"s1", "s2"} :
          no_document /\ finalize_consumption_bill(s, <<"A">>, <<>>, NoFault)
    \/ add_reception_item("s2", A1, 1)
    \/ save_reception_draft("s2", <<"F">>, <<>>, <<>>)
    \/ \E s \in {"s1", "s2"} : create_reception(s)
    \/ no_document /\ finalize_reception("s2", <<"F">>, <<>>, <<>>, NoFault)

SpecSessions == InitWith(InitialProducts, {"s1", "s2"}) /\ [][NextSessions]_vars

\* Requests of two browsers served at the same time: the create page makes
\* its two queries with other requests committing in between.  A save or a
\* finalize is one step, its commit: what it wrote before is in its own
\* transaction and no other connection reads it.
NextInterleaved ==
    \/ \E s \in {"s1", "s2"} : request[s] = <<>> /\ add_bill_item(s, A1, 1)
    \/ \E s \in {"s1", "s2"}, n \in {<<"A">>, <<"B">>} :
          request[s] = <<>> /\ save_bill_draft(s, n, <<>>)
    \/ \E s \in {"s1", "s2"} :
          request[s] = <<>> /\ no_document
          /\ finalize_consumption_bill(s, <<"A">>, <<>>, NoFault)
    \/ \E s \in {"s1", "s2"} : create_consumption_bill_draft_query(s)
    \/ \E s \in {"s1", "s2"} : create_consumption_bill_items_query(s)

SpecInterleaved ==
    InitWith(InitialProducts, {"s1", "s2"}) /\ [][NextInterleaved]_vars

\* The stock over several documents: one session finalizing bills and
\* reception sheets, some finalizes failing, while product 2 is edited or
\* deleted and product 1 is left alone
NextLedger ==
    \/ add_bill_item("s1", A1, 1)
    \/ remove_bill_item("s1", 0)
    \/ save_bill_draft("s1", <<>>, <<>>)
    \/ create_consumption_bill("s1")
    \/ \E f \in {NoFault, <<2>>} :
          finalize_consumption_bill("s1", <<"A">>, <<>>, f)
    \/ add_reception_item("s1", A1, 1)
    \/ remove_reception_item("s1", 0)
    \/ save_reception_draft("s1", <<>>, <<>>, <<>>)
    \/ create_reception("s1")
    \/ finalize_reception("s1", <<"F">>, <<>>, <<>>, NoFault)
    \/ edit_product(2, product_form(<<"C">>))
    \/ delete_product(2)

SpecLedger == InitWith(InitialProducts, {"s1"}) /\ [][NextLedger]_vars

---------------------------------------------------------------------------
(* Vocabulary of the properties *)

FinalizeViews == {"finalize_consumption_bill", "finalize_reception"}

\* a text with nothing but whitespace in it
IsBlank(t) == \A i \in 1 .. Len(t) : t[i] \in Whitespace

\* the buffer of session s that view op works on
buffer_of(op, s) ==
    IF op \in {"finalize_consumption_bill", "add_bill_item", "remove_bill_item",
               "save_bill_draft", "create_consumption_bill"}
    THEN bill_items(s)
    ELSE reception_items(s)

\* +1 for a reception (stock in), -1 for a bill (stock out)
sign_of(op) == IF op = "finalize_reception" THEN 1 ELSE 0 - 1

\* the sum of the quantities of the items whose code is in codes
RECURSIVE quantity_of(_, _)
quantity_of(items, codes) ==
    IF items = <<>>
    THEN 0
    ELSE (IF Head(items).code \in codes THEN Head(items).quantity ELSE 0)
         + quantity_of(Tail(items), codes)

all_codes(items) == {items[i].code : i \in 1 .. Len(items)}
catalog_codes(products) == {products[id].code : id \in DOMAIN products}

\* the sum of the quantities of all products
RECURSIVE total_stock(_)
total_stock(products) ==
    IF DOMAIN products = {}
    THEN 0
    ELSE LET id == CHOOSE p \in DOMAIN products : TRUE IN
         products[id].quantity
         + total_stock([p \in DOMAIN products \ {id} |-> products[p]])

\* an item without its sequence number
content(item) == <<item.code, item.name, item.unit, item.quantity, item.location>>
contents(items) == [i \in 1 .. Len(items) |-> content(items[i])]

\* the sequence numbers are 1..n in list order
numbered(items) == \A i \in 1 .. Len(items) : items[i].item_number = i

\* b is a with one entry taken out, the others in their order
one_removed(a, b) ==
    /\ Len(b) = Len(a) - 1
    /\ \E k \in 1 .. Len(a) :
          \A j \in 1 .. Len(b) : b[j] = IF j < k THEN a[j] ELSE a[j + 1]

---------------------------------------------------------------------------
(* Properties *)

\* C1: a finalize whose transaction fails changes no table (no document,
\* no line item, no product quantity, the draft still there) and leaves
\* the session buffer as it was.
C1_FinalizeAllOrNothing ==
    [][(last'.op \in FinalizeViews /\ last'.result = "error")
          => (UNCHANGED db /\ session' = session)]_vars

\* The transaction failed in its second round, after the first item had
\* been written, with a draft saved.
C1_Witness ==
    /\ last.op = "finalize_consumption_bill"
    /\ last.result = "error"
    /\ last.arg.fault = <<2>>
    /\ Len(bill_items("s1")) = 2
    /\ DraftBill # {}

\* the per-product part of C2: every product is still there and its
\* quantity moved by the sum of the quantities of the items with its code
stock_moved_per_product(op, items) ==
    \A id \in DOMAIN Product :
        /\ id \in DOMAIN Product'
        /\ Product'[id].quantity =
              Product[id].quantity
              + sign_of(op) * quantity_of(items, {Product[id].code})

\* C2 as stated: after a successful finalize every product moved by the
\* quantities of its items, and the total change over all products is the
\* signed sum of all line-item quantities.
C2_Original ==
    [][(last'.op \in FinalizeViews /\ last'.result = "ok")
          => LET items == buffer_of(last'.op, last'.sid) IN
             /\ stock_moved_per_product(last'.op, items)
             /\ total_stock(Product') - total_stock(Product)
                   = sign_of(last'.op) * quantity_of(items, all_codes(items))]_vars

\* C2 amended: after a successful finalize every product moved by the
\* quantities of its items (minus for a bill, plus for a reception), and the
\* total change over all products is the signed sum of the quantities of the
\* line items whose product code is in the catalog.
C2_StockDelta ==
    [][(last'.op \in FinalizeViews /\ last'.result = "ok")
          => LET items == buffer_of(last'.op, last'.sid) IN
             /\ stock_moved_per_product(last'.op, items)
             /\ total_stock(Product') - total_stock(Product)
                   = sign_of(last'.op)
                     * quantity_of(items, catalog_codes(Product))]_vars

\* A bill was finalized with two items of the same product, which is in
\* the catalog.
C2_Witness ==
    /\ last.op = "finalize_consumption_bill"
    /\ last.result = "ok"
    /\ \E r1, r2 \in BillItem :
          /\ r1.id # r2.id
          /\ r1.bill_id = r2.bill_id
          /\ r1.product_code = r2.product_code
          /\ r1.product_code \in catalog_codes(Product)

\* C3: no product quantity is negative after any request.
C3_NoNegativeStock == \A id \in DOMAIN Product : Product[id].quantity >= 0

\* the states of the example: A1 at 10 with an empty bill buffer, and
\* with the item of 4 in it
example_start ==
    /\ 1 \in DOMAIN Product /\ Product[1].code = A1 /\ Product[1].quantity = 10
    /\ bill_items("s1") = <<>>
example_one_item ==
    /\ 1 \in DOMAIN Product /\ Product[1].code = A1 /\ Product[1].quantity = 10
    /\ contents(bill_items("s1")) = <<content(new_item(1, Product[1], 4))>>

\* the example with a second request for `second` units
example(second) ==
    /\ (example_start /\ last'.op = "add_bill_item" /\ last'.arg.quantity = 4)
          => /\ last'.result = "ok"
             /\ bill_items("s1")' = <<new_item(1, Product[1], 4)>>
    /\ (example_one_item /\ last'.op = "add_bill_item" /\ last'.arg.quantity = second)
          => /\ last'.result = "insufficient_stock"
             /\ bill_items("s1")' = bill_items("s1")
    /\ (example_one_item /\ last'.op = "finalize_consumption_bill"
          /\ ~IsBlank(last'.arg.meta[1]))
          => /\ last'.result = "ok"
             /\ Product'[1].quantity = 6

\* C4 as stated: with A1 at 10, addItem(A1, 4) succeeds, addItem(A1, 10)
\* then fails with InsufficientStock leaving the one item, and finalize
\* with an employee name then succeeds and leaves A1 at 6.
C4_Original == [][example(10)]_vars

\* C4 amended: with A1 at 10, addItem(A1, 4) succeeds, addItem(A1, 11)
\* then fails with InsufficientStock leaving the one item, and finalize
\* with an employee name then succeeds and leaves A1 at 6.
C4_Example == [][example(11)]_vars

\* The bill of the example was finalized: one line of 4, A1 at 6.
C4_Witness ==
    /\ last.op = "finalize_consumption_bill"
    /\ last.result = "ok"
    /\ Product[1].quantity = 6
    /\ {r.quantity : r \in BillItem} = {4}
    /\ Cardinality(BillItem) = 1

\* C5 as stated: finalize with the buffer absent or empty fails with the
\* empty-document error and changes no table.
C5_Original ==
    [][(last'.op \in FinalizeViews /\ buffer_of(last'.op, last'.sid) = <<>>)
          => /\ last'.result = "empty_document"
             /\ UNCHANGED db]_vars

\* C5 amended: finalize with the buffer absent or empty always fails, with
\* the validation error when the required field is blank and with the
\* empty-document error otherwise, and changes no table (no document, no
\* line item, no product quantity, no draft deleted).
C5_EmptyBufferFails ==
    [][(last'.op \in FinalizeViews /\ buffer_of(last'.op, last'.sid) = <<>>)
          => /\ last'.result = IF IsBlank(last'.arg.meta[1])
                               THEN "validation_error"
                               ELSE "empty_document"
             /\ UNCHANGED db]_vars

\* Finalize was refused for a buffer that is there and empty, with a draft
\* saved.
C5_Witness ==
    /\ last.op = "finalize_consumption_bill"
    /\ last.result = "empty_document"
    /\ "bill_items" \in DOMAIN session["s1"]
    /\ bill_items("s1") = <<>>
    /\ DraftBill # {}

\* C6: finalize with a blank employee name (bill) or supplier (reception)
\* fails with the validation error whatever the buffer holds, and changes
\* neither a table nor the session buffer.
C6_BlankFieldRejected ==
    [][(last'.op \in FinalizeViews /\ IsBlank(last'.arg.meta[1]))
          => /\ last'.result = "validation_error"
             /\ UNCHANGED db
             /\ session' = session]_vars

\* Finalize was refused for a whitespace-only name with two items in the
\* buffer and a draft saved.
C6_Witness ==
    /\ last.op = "finalize_consumption_bill"
    /\ last.result = "validation_error"
    /\ last.arg.meta[1] = <<" ">>
    /\ Len(bill_items("s1")) = 2
    /\ DraftBill # {}

\* C7: right after a successful finalize there is no draft row and no
\* draft item row of that type, loading the draft finds none, and the
\* buffer of the finalizing session is empty.
C7_FinalizeClearsDraft ==
    /\ (last.op = "finalize_consumption_bill" /\ last.result = "ok")
          => /\ DraftBill = {} /\ DraftBillItem = {}
             /\ ~load_draft_bill(session[last.sid], <<>>).found
             /\ bill_items(last.sid) = <<>>
    /\ (last.op = "finalize_reception" /\ last.result = "ok")
          => /\ DraftReception = {} /\ DraftReceptionItem = {}
             /\ ~load_draft_reception(session[last.sid], <<>>).found
             /\ reception_items(last.sid) = <<>>

\* A bill was finalized.
C7_Witness ==
    /\ last.op = "finalize_consumption_bill"
    /\ last.result = "ok"
    /\ \E b \in ConsumptionBill : \E r \in BillItem : r.bill_id = b.id

\* C8: a draft saved and then loaded by the same session gives back the
\* metadata that was saved and the buffer that was saved: the same items
\* with the same sequence numbers in the same order.
C8_RoundTrip ==
    [][(/\ last.op \in {"save_bill_draft", "save_reception_draft"}
        /\ last'.op = last.redirect
        /\ last'.sid = last.sid)
          => /\ last'.result = "draft"
             /\ last'.arg.meta = last.arg.meta
             /\ buffer_of(last.op, last.sid)' = buffer_of(last.op, last.sid)]_vars

C10_StockCheck ==
    [][/\ (last'.op = "add_bill_item") =>
             LET found == product_by_code(Product, last'.arg.code) IN
             /\ (found = {}) <=> (last'.result = "not_found")
             /\ \A id \in found :
                   (last'.result = "insufficient_stock")
                      <=> (last'.arg.quantity > Product[id].quantity)
       /\ (last'.op = "add_reception_item") =>
             LET found == product_by_code(Product, last'.arg.code) IN
             last'.result = IF found = {} THEN "not_found" ELSE "ok"
       /\ (last'.op \in {"add_bill_item", "add_reception_item"}
             /\ last'.result # "ok") => session' = session]_vars

\* A second item for the whole stock of a product was accepted while the
\* buffer already held an item of that product.
C10_Witness ==
    /\ last.op = "add_bill_item"
    /\ last.result = "ok"
    /\ \E id \in DOMAIN Product :
          /\ Product[id].code = last.arg.code
          /\ Product[id].quantity = last.arg.quantity
    /\ Len(bill_items(last.sid)) = 2
    /\ bill_items(last.sid)[1].code = last.arg.code

\* C11: a removeItem with an index out of bounds leaves the buffer as it
\* was; with an index in bounds it takes that one entry out, and the buffer
\* is still the previous buffer without that entry once the redirect to the
\* create page has been served, also when a draft of that type is saved.
C11_RemoveSurvivesRedirect ==
    [][\A s \in DOMAIN session :
          \A op \in {"remove_bill_item", "remove_reception_item"} :
             /\ (last'.op = op /\ last'.sid = s) =>
                   IF last'.arg.index < Len(buffer_of(op, s))
                   THEN one_removed(contents(buffer_of(op, s)),
                                    contents(buffer_of(op, s)'))
                   ELSE buffer_of(op, s)' = buffer_of(op, s)
             /\ (last.op = op /\ last.sid = s /\ last.result = "removed"
                   /\ last'.op = last.redirect /\ last'.sid = s) =>
                   buffer_of(op, s)' = buffer_of(op, s)]_vars

\* C13: a finalized document is immutable: every bill and every reception
\* sheet that exists is there after any request with the same metadata
\* and exactly the same line items.
C13_DocumentsImmutable ==
    [][/\ \A b \in ConsumptionBill :
             /\ b \in ConsumptionBill'
             /\ {r \in BillItem' : r.bill_id = b.id}
                   = {r \in BillItem : r.bill_id = b.id}
       /\ \A d \in ReceptionSheet :
             /\ d \in ReceptionSheet'
             /\ {r \in ReceptionItem' : r.reception_id = d.id}
                   = {r \in ReceptionItem : r.reception_id = d.id}]_vars

\* A bill whose line names product A1 is still there after A1 left the
\* catalog and a second bill was finalized.
C13_Witness ==
    /\ Cardinality(ConsumptionBill) = 2
    /\ A1 \notin catalog_codes(Product)
    /\ \E r \in BillItem : r.bill_id = 1 /\ r.product_code = A1
    /\ \E r \in BillItem : r.bill_id = 2

\* the line-item rows a finalize added are the buffer items, one row each,
\* with their sequence numbers and snapshots
recorded(op, items) ==
    LET new == IF op = "finalize_consumption_bill"
               THEN BillItem' \ BillItem
               ELSE ReceptionItem' \ ReceptionItem
    IN /\ Cardinality(new) = Len(items)
       /\ \A i \in 1 .. Len(items) :
             \E r \in new :
                /\ r.item_number = items[i].item_number
                /\ <<r.product_code, r.product_name, r.unit, r.quantity, r.location>>
                      = content(items[i])

\* C18: finalize with a name and a buffer that is not empty succeeds also
\* when the product of an item has left the catalog (deleted or re-coded):
\* every item is recorded with its snapshot, and every product's quantity
\* moves by the items that carry its code and by nothing else.
C18_MissingProductSkipped ==
    [][(last'.op \in FinalizeViews /\ last'.arg.fault = NoFault
          /\ ~IsBlank(last'.arg.meta[1])
          /\ buffer_of(last'.op, last'.sid) # <<>>)
          => LET items == buffer_of(last'.op, last'.sid) IN
             /\ last'.result = "ok"
             /\ recorded(last'.op, items)
             /\ stock_moved_per_product(last'.op, items)]_vars

\* A bill was finalized with a line for a code that is not in the catalog
\* and a line for B2, whose stock went from 1 to 0.
C18_Witness ==
    /\ last.op = "finalize_consumption_bill"
    /\ last.result = "ok"
    /\ \E r1, r2 \in BillItem :
          /\ r1.bill_id = r2.bill_id
          /\ r1.product_code \notin catalog_codes(Product)
          /\ r2.product_code = B2
    /\ \E id \in DOMAIN Product :
          Product[id].code = B2 /\ Product[id].quantity = 0

\* C14: every line item of every finalized bill and reception sheet has a
\* quantity above zero and a sequence number of at least 1 that no other
\* line of its document has.
C14_LineItemsWellFormed ==
    /\ \A r \in BillItem :
          /\ r.quantity > 0
          /\ r.item_number >= 1
          /\ \A q \in BillItem :
                (q.bill_id = r.bill_id /\ q.item_number = r.item_number) => q = r
    /\ \A r \in ReceptionItem :
          /\ r.quantity > 0
          /\ r.item_number >= 1
          /\ \A q \in ReceptionItem :
                (q.reception_id = r.reception_id /\ q.item_number = r.item_number)
                   => q = r

\* the sequence-number part of C14 alone
line_numbers_unique ==
    /\ \A r, q \in BillItem :
          (r.item_number >= 1)
          /\ ((q.bill_id = r.bill_id /\ q.item_number = r.item_number) => q = r)
    /\ \A r, q \in ReceptionItem :
          (r.item_number >= 1)
          /\ ((q.reception_id = r.reception_id /\ q.item_number = r.item_number)
                 => q = r)

\* no two rows of the Product table have the same code
unique_codes(products) ==
    \A i, j \in DOMAIN products : i # j => products[i].code # products[j].code

\* the text typed is this code with whitespace before and after it
typed_as(field, code) ==
    \E a, b \in 0 .. Len(field) :
       /\ a + Len(code) + b = Len(field)
       /\ \A k \in 1 .. a : field[k] \in Whitespace
       /\ \A k \in 1 .. Len(code) : field[a + k] = code[k]
       /\ \A k \in 1 .. b : field[a + Len(code) + k] \in Whitespace

\* C16: create with a code that is in the catalog, and update to the code
\* of a different product, fail with DuplicateCode and leave the catalog
\* as it was; they succeed otherwise; after any create, update or delete
\* no two products share a code.
C16_UniqueCodes ==
    [][/\ (last'.op = "add_product") =>
             LET dup == \E id \in DOMAIN Product :
                           typed_as(last'.arg.code, Product[id].code)
             IN /\ last'.result = IF dup THEN "duplicate_code" ELSE "ok"
                /\ dup => Product' = Product
       /\ (last'.op = "edit_product" /\ last'.arg.index \in DOMAIN Product) =>
             LET dup == \E id \in DOMAIN Product \ {last'.arg.index} :
                           typed_as(last'.arg.code, Product[id].code)
             IN /\ last'.result = IF dup THEN "duplicate_code" ELSE "ok"
                /\ dup => Product' = Product
       /\ unique_codes(Product')]_vars

\* An update to the code of another product was refused in a catalog of
\* three products, one of them created.
C16_Witness ==
    /\ last.op = "edit_product"
    /\ last.result = "duplicate_code"
    /\ Cardinality(DOMAIN Product) = 3
    /\ \E id \in DOMAIN Product : Product[id].code = <<"C">>

\* C12: after any requests of any sessions there is at most one draft row
\* of each document type, and every draft item row of the type belongs to
\* that draft.
C12_OneDraftPerType ==
    /\ Cardinality(DraftBill) <= 1
    /\ \A r \in DraftBillItem : \E d \in DraftBill : r.draft_id = d.id
    /\ Cardinality(DraftReception) <= 1
    /\ \A r \in DraftReceptionItem : \E d \in DraftReception : r.draft_id = d.id

\* Session s2 saved a bill draft of one item while session s1 holds the
\* two items of the draft that was there before.
C12_Witness ==
    /\ last.op = "save_bill_draft"
    /\ last.sid = "s2"
    /\ Cardinality(DraftBillItem) = 1
    /\ Len(bill_items("s2")) = 1
    /\ Len(bill_items("s1")) = 2
    /\ ConsumptionBill # {}

\* C15: a request of one session changes neither the bill buffer nor the
\* reception buffer of any other session.
C15_BufferPerSession ==
    [][\A s \in DOMAIN session :
          s # last'.sid => session'[s] = session[s]]_vars

\* Session s2 loaded the saved draft of two items while session s1 keeps
\* its own buffer of one item.
C15_Witness ==
    /\ last.op = "create_consumption_bill"
    /\ last.sid = "s2"
    /\ last.result = "draft"
    /\ Len(bill_items("s2")) = 2
    /\ Len(bill_items("s1")) = 1

\* C19: loading the draft of a type when there is one sets the buffer of
\* that type of the calling session to exactly the items of the draft, one
\* for each draft item row, whatever the buffer held, and leaves the other
\* buffer alone; when there is none it answers not-found and leaves the
\* session as it was.  Either way no table changes: neither the drafts, nor
\* the catalog, nor the finalized documents.
C19_LoadDraft ==
    [][\A s \in DOMAIN session :
          /\ (last'.op = "create_consumption_bill" /\ last'.sid = s) =>
                /\ UNCHANGED db
                /\ IF DraftBill # {}
                   THEN /\ last'.result = "draft"
                        /\ Len(bill_items(s)') = Cardinality(DraftBillItem)
                        /\ {bill_items(s)'[i] : i \in 1 .. Len(bill_items(s)')}
                              = {item_of_row(r) : r \in DraftBillItem}
                        /\ reception_items(s)' = reception_items(s)
                   ELSE /\ last'.result = "no_draft"
                        /\ session' = session
          /\ (last'.op = "create_reception" /\ last'.sid = s) =>
                /\ UNCHANGED db
                /\ IF DraftReception # {}
                   THEN /\ last'.result = "draft"
                        /\ Len(reception_items(s)') = Cardinality(DraftReceptionItem)
                        /\ {reception_items(s)'[i] :
                               i \in 1 .. Len(reception_items(s)')}
                              = {item_of_row(r) : r \in DraftReceptionItem}
                        /\ bill_items(s)' = bill_items(s)
                   ELSE /\ last'.result = "no_draft"
                        /\ session' = session]_vars

\* The bill draft of one item was loaded into a session while the
\* reception buffer of the session holds two items.
C19_Witness ==
    /\ last.op = "create_consumption_bill"
    /\ last.result = "draft"
    /\ Cardinality(DraftBillItem) = 1
    /\ Len(bill_items("s1")) = 1
    /\ Len(reception_items("s1")) = 2

\* C20: a second successful addItem for the code of the item added just
\* before is a second item of its own, numbered one above the first, and
\* the first stays as it was; a successful finalize records every item
\* of the buffer, duplicates included, and moves every product's quantity
\* by the sum of the quantities of the items with its code.
C20_DuplicateCodes ==
    [][\A s \in DOMAIN session :
          /\ \A op \in {"add_bill_item", "add_reception_item"} :
                (/\ last.op = op /\ last.sid = s /\ last.result = "ok"
                 /\ last'.op = op /\ last'.sid = s /\ last'.result = "ok"
                 /\ last'.arg.code = last.arg.code) =>
                   LET old == buffer_of(op, s)
                       new == buffer_of(op, s)'
                   IN /\ Len(new) = Len(old) + 1
                      /\ SubSeq(new, 1, Len(old)) = old
                      /\ new[Len(new)].code = old[Len(old)].code
                      /\ new[Len(new)].quantity = last'.arg.quantity
                      /\ new[Len(new)].item_number = old[Len(old)].item_number + 1
          /\ \A op \in FinalizeViews :
                (last'.op = op /\ last'.sid = s /\ last'.result = "ok") =>
                   /\ recorded(op, buffer_of(op, s))
                   /\ stock_moved_per_product(op, buffer_of(op, s))]_vars

\* A bill of two items of product A1, numbered 1 and 2, was finalized and
\* took A1 from 2 to 0.
C20_Witness ==
    /\ last.op = "finalize_consumption_bill"
    /\ last.result = "ok"
    /\ \E r1, r2 \in BillItem :
          /\ r1.item_number = 1 /\ r2.item_number = 2
          /\ r1.product_code = A1 /\ r2.product_code = A1
          /\ r1.bill_id = r2.bill_id
    /\ \E id \in DOMAIN Product :
          Product[id].code = A1 /\ Product[id].quantity = 0

\* a draft as a load hands it over: the metadata and the items
draft_as_loaded(draft, rows) ==
    <<draft.employee_name, draft.employee_signature,
      {item_of_row(r) : r \in rows}>>

\* C17: a load of the bill draft that runs while other sessions save never
\* hands over a torn draft: its metadata and items are those of the draft
\* that was there when the load began or those of the draft that is there
\* when it ends, complete.
C17_NoTornDraft ==
    [][\A s \in DOMAIN session :
          (request[s] # <<>> /\ request'[s] = <<>>) =>
             LET loaded == <<last'.arg.meta[1], last'.arg.meta[2],
                             {bill_items(s)'[i] : i \in 1 .. Len(bill_items(s)')}>>
             IN \/ loaded = draft_as_loaded(request[s][1].draft,
                                            request[s][1].snapshot)
                \/ \E d \in DraftBill :
                      loaded = draft_as_loaded(d, {r \in DraftBillItem :
                                                     r.draft_id = d.id})]_vars

\* the sum of the quantities of the line-item rows with this product code
RECURSIVE ledger(_, _)
ledger(rows, code) ==
    IF rows = {}
    THEN 0
    ELSE LET r == CHOOSE x \in rows : TRUE IN
         (IF r.product_code = code THEN r.quantity ELSE 0)
         + ledger(rows \ {r}, code)

\* the products that are as they were at the start but for their quantity:
\* never edited (an edit here changes code and name) and never deleted
untouched(products) ==
    {id \in DOMAIN products \cap DOMAIN InitialProducts :
        [products[id] EXCEPT !.quantity = 0]
           = [InitialProducts[id] EXCEPT !.quantity = 0]}

\* every untouched product stands at its initial quantity, less the bill
\* lines with its code, plus the reception lines with its code
ledger_balanced ==
    \A id \in untouched(Product) :
        Product[id].quantity =
           InitialProducts[id].quantity
           - ledger(BillItem, Product[id].code)
           + ledger(ReceptionItem, Product[id].code)

\* C21: after any requests, a product that was there throughout and never
\* edited stands at its initial quantity minus the quantities of all
\* finalized bill lines with its code plus the quantities of all finalized
\* reception lines with its code; addItem, removeItem, saveDraft and
\* loadDraft change no product quantity.
C21_StockLedger ==
    [][/\ ledger_balanced'
       /\ (last'.op \in {"add_bill_item", "remove_bill_item", "save_bill_draft",
                          "create_consumption_bill", "add_reception_item",
                          "remove_reception_item", "save_reception_draft",
                          "create_reception"})
             => Product' = Product]_vars

\* Product A1, never touched, has a line on a finalized bill and a line on
\* a finalized reception sheet, and product 2 has been edited or deleted.
C21_Witness ==
    /\ 1 \in untouched(Product)
    /\ 2 \notin untouched(Product)
    /\ \E r \in BillItem : r.product_code = A1
    /\ \E r \in ReceptionItem : r.product_code = A1

\* the views of each document type
BillViews ==
    {"add_bill_item", "remove_bill_item", "save_bill_draft",
     "create_consumption_bill", "finalize_consumption_bill"}
ReceptionViews ==
    {"add_reception_item", "remove_reception_item", "save_reception_draft",
     "create_reception", "finalize_reception"}

\* what session s holds under key: nothing, or the one list
held(s, key) == IF key \in DOMAIN session[s] THEN <<session[s][key]>> ELSE <<>>

\* C22: a bill request leaves the reception buffer, the reception draft and
\* the reception sheets as they were, and a reception request leaves the
\* bill buffer, the bill draft and the consumption bills as they were.
C22_Independent ==
    [][/\ last'.op \in BillViews =>
             /\ reception_db' = reception_db
             /\ \A s \in DOMAIN session :
                   held(s, "reception_items")' = held(s, "reception_items")
       /\ last'.op \in ReceptionViews =>
             /\ bill_db' = bill_db
             /\ \A s \in DOMAIN session :
                   held(s, "bill_items")' = held(s, "bill_items")]_vars

\* A bill has just been finalized while a reception sheet, a reception draft
\* with items and a filled reception buffer were there.
C22_Witness ==
    /\ last.op = "finalize_consumption_bill"
    /\ last.result = "ok"
    /\ ReceptionSheet # {}
    /\ DraftReception # {}
    /\ DraftReceptionItem # {}
    /\ reception_items("s1") # <<>>

=============================================================================
